---- MODULE Spec2Model ----
(***************************************************************************)
(* Model of the mock bank API of src/main.py: the account generator, the   *)
(* transaction generator and the three data endpoints.                     *)
(*                                                                         *)
(* Every request is handled independently, so the state is the request    *)
(* being served and what its handler produced.  A handler is one action;   *)
(* its random draws are read from a tape chosen nondeterministically.      *)
(* Money is counted in cents (the code rounds every amount to 2 places).   *)
(* Text is a sequence of one-character strings.                            *)
(***************************************************************************)
EXTENDS Integers, Sequences, FiniteSets, TLC

VARIABLES pc, request, universe, batches, status, result, delivered

vars == <<pc, request, universe, batches, status, result, delivered>>

(***************************************************************************)
(* Bounds of the enumeration of the random draws.                          *)
(***************************************************************************)
\* the account-type draws repeat with this period along the 20 accounts
TypePeriod == 3
\* the days_ago draws repeat with this period along the transactions
DatePeriod == 3
\* days_ago is drawn in 0..DaysBack (the code draws in 0..14)
DaysBack == 2

Min(a, b) == IF a <= b THEN a ELSE b
Max(a, b) == IF a >= b THEN a ELSE b

(***************************************************************************)
(* Constants of the program.                                               *)
(***************************************************************************)
ACCOUNT_TYPES == <<"Transactional", "Credit Card", "Loan">>

name_prefixes ==
  <<"Main", "Joint", "Personal", "Business", "Savings", "Holiday",
    "Emergency", "Investment", "Everyday", "Bonus", "Mortgage", "Auto">>

debit_references ==
  <<"PAYMENT: Online Purchase", "ATM WITHDRAWAL", "POS PURCHASE: Grocery Store",
    "BILL PAYMENT: Utility", "TRANSFER TO: Savings Account",
    "SUBSCRIPTION: Streaming Service", "RESTAURANT PAYMENT", "MOBILE PAYMENT",
    "INSURANCE PREMIUM", "LOAN REPAYMENT">>

credit_references ==
  <<"SALARY DEPOSIT", "TRANSFER FROM: Checking Account", "REFUND: Online Store",
    "INTEREST PAYMENT", "TAX REFUND", "DIVIDEND PAYMENT", "CASH DEPOSIT",
    "PAYMENT RECEIVED", "REIMBURSEMENT", "GOVERNMENT PAYMENT">>

\* fields the response models declare; FastAPI keeps these and drops the rest
AccountsResponse == {"accounts", "total_count"}
TransactionsResponse == {"account_id", "transactions", "total_count"}
MultiAccountTransactionsResponse == {"accounts", "total_transactions"}

(***************************************************************************)
(* Python helpers.                                                         *)
(***************************************************************************)
\* x in lst
InList(x, lst) == \E i \in DOMAIN lst : lst[i] = x

\* lst[:n]; a negative n drops the last -n elements
PySliceTo(lst, n) ==
  IF n >= 0 THEN SubSeq(lst, 1, Min(n, Len(lst)))
  ELSE SubSeq(lst, 1, Max(0, Len(lst) + n))

\* random.uniform(lo, hi) rounded to cents, enumerated at the two ends of its range
Uniform(lo, hi, u) == IF u = 0 THEN lo ELSE hi

\* random.choice(lst), enumerated at the first and the last element
Choice(lst, c) == IF c = 0 THEN lst[1] ELSE lst[Len(lst)]

\* the response as shaped by the endpoint's response_model
ShapeResponse(body, model) == [f \in (DOMAIN body) \cap model |-> body[f]]

(***************************************************************************)
(* str(int)                                                                *)
(***************************************************************************)
DigitChars == <<"0", "1", "2", "3", "4", "5", "6", "7", "8", "9">>

RECURSIVE NatToStr(_)
NatToStr(n) ==
  IF n < 10 THEN <<DigitChars[n + 1]>>
  ELSE NatToStr(n \div 10) \o <<DigitChars[(n % 10) + 1]>>

IntToStr(n) == IF n < 0 THEN <<"-">> \o NatToStr(-n) ELSE NatToStr(n)

(***************************************************************************)
(* Account generator                                                       *)
(***************************************************************************)
\* one tape of random draws for generate_accounts
AccountTapes ==
  [types : [1..TypePeriod -> {1, 2, 3}], u1 : {0, 1}, u2 : {0, 1}, prefix : {0, 1}]

BankAccount(i, tape) ==
  LET account_type == ACCOUNT_TYPES[tape.types[((i - 1) % TypePeriod) + 1]]
      prefix == Choice(name_prefixes, tape.prefix)
  IN  IF account_type = "Transactional" THEN
        LET total_balance == Uniform(100000, 5000000, tape.u1)
        IN  [id |-> i, account_name |-> <<prefix, " ", "Account">>,
             account_type |-> account_type,
             available_balance |-> total_balance - Uniform(0, 50000, tape.u2),
             total_balance |-> total_balance]
      ELSE IF account_type = "Credit Card" THEN
        LET credit_limit == Uniform(100000, 2000000, tape.u1)
            used_amount == Uniform(0, (credit_limit * 8) \div 10, tape.u2)
        IN  [id |-> i, account_name |-> <<prefix, " ", "Card">>,
             account_type |-> account_type,
             available_balance |-> credit_limit - used_amount,
             total_balance |-> -used_amount]
      ELSE
        LET original_loan == Uniform(500000, 50000000, tape.u1)
            repaid_amount == Uniform(0, original_loan \div 2, tape.u2)
        IN  [id |-> i, account_name |-> <<prefix, " ", "Loan">>,
             account_type |-> account_type,
             available_balance |-> 0,
             total_balance |-> -(original_loan - repaid_amount)]

\* the loop of generate_accounts: for i in range(1, count + 1), append the i-th account
RECURSIVE generate_accounts(_, _)
generate_accounts(count, tape) ==
  IF count <= 0 THEN <<>>
  ELSE Append(generate_accounts(count - 1, tape), BankAccount(count, tape))

\* [account.id for account in all_accounts]
RECURSIVE AccountIds(_)
AccountIds(all_accounts) ==
  IF all_accounts = <<>> THEN <<>>
  ELSE <<Head(all_accounts).id>> \o AccountIds(Tail(all_accounts))

\* the id lists the handlers can see, over every outcome of generate_accounts(20)
ValidAccountIdLists == {AccountIds(generate_accounts(20, tape)) : tape \in AccountTapes}

(***************************************************************************)
(* GET /api/accounts                                                       *)
(***************************************************************************)
\* an Optional[str] is <<>> (absent) or <<s>>
AccountTypeInputs ==
  {<<>>, <<"">>, <<"Transactional">>, <<"Credit Card">>, <<"Loan">>, <<"loan">>,
   <<"Savings">>}

LimitInputs == {-21, -3, -1, 0, 1, 7, 19, 20, 21, 40}

\* a faulty variant of ClampLimit: the limit is passed through unclamped
ClampLimit_Unclamped(limit, most) == limit

ClampLimit(limit, most) == Min(limit, most)

ApplyTypeFilter(all_accounts, account_type) ==
  IF account_type # <<>> /\ account_type[1] # "" /\ InList(account_type[1], ACCOUNT_TYPES)
  THEN SelectSeq(all_accounts, LAMBDA a : a.account_type = account_type[1])
  ELSE all_accounts

\* a faulty variant of AccountsBody: the universe is truncated before it is filtered
AccountsBody_LimitBeforeFilter(all_accounts, limit, account_type) ==
  LET accounts == ApplyTypeFilter(PySliceTo(all_accounts, ClampLimit(limit, 20)),
                                  account_type)
  IN  [accounts |-> accounts, total_count |-> Len(accounts)]

AccountsBody(all_accounts, limit, account_type) ==
  LET accounts == PySliceTo(ApplyTypeFilter(all_accounts, account_type),
                            ClampLimit(limit, 20))
  IN  [accounts |-> accounts, total_count |-> Len(accounts)]

\* a parameter of the form x \in {e} names the value of e, computed once
get_accounts ==
  /\ pc = "idle"
  /\ \E limit \in LimitInputs, account_type \in AccountTypeInputs, tape \in AccountTapes :
     \E all_accounts \in {generate_accounts(20, tape)} :
     \E body \in {AccountsBody(all_accounts, limit, account_type)} :
       /\ request' = [endpoint |-> "accounts", limit |-> limit,
                      account_type |-> account_type]
       /\ universe' = all_accounts
       /\ status' = 200
       /\ result' = body
       /\ delivered' = ShapeResponse(body, AccountsResponse)
  /\ batches' = <<>>
  /\ pc' = "done"

(***************************************************************************)
(* Dates: datetime.now() - timedelta(days), strftime("%Y-%m-%d").          *)
(* A date string is kept as its three zero-padded fields <<YYYY, MM, DD>>; *)
(* the fields have fixed width, so comparing two date strings character by *)
(* character is comparing the fields in this order.                        *)
(***************************************************************************)
IsLeap(y) == (y % 4 = 0 /\ y % 100 # 0) \/ y % 400 = 0

DaysInMonth(y, m) ==
  IF m = 2 THEN (IF IsLeap(y) THEN 29 ELSE 28)
  ELSE IF m \in {4, 6, 9, 11} THEN 30 ELSE 31

PrevDay(d) ==
  IF d[3] > 1 THEN <<d[1], d[2], d[3] - 1>>
  ELSE IF d[2] > 1 THEN <<d[1], d[2] - 1, DaysInMonth(d[1], d[2] - 1)>>
  ELSE <<d[1] - 1, 12, 31>>

RECURSIVE DateMinus(_, _)
DateMinus(d, days) == IF days = 0 THEN d ELSE DateMinus(PrevDay(d), days - 1)

\* a < b for two date strings
StrLess(a, b) ==
  \/ a[1] < b[1]
  \/ a[1] = b[1] /\ a[2] < b[2]
  \/ a[1] = b[1] /\ a[2] = b[2] /\ a[3] < b[3]

\* the values datetime.now() takes in the model: after a leap day, after a new year
\* (one value for the whole request: the calls of one request are taken on one day)
NowInputs == {<<2024, 3, 1>>, <<2024, 1, 2>>}

(***************************************************************************)
(* Transaction generator                                                   *)
(***************************************************************************)
\* one tape of random draws for the transactions of a request
TxTapes ==
  [days : [1..DatePeriod -> 0..DaysBack], is_debit : BOOLEAN, amount : {0, 1},
   reference : {0, 1}]

\* a faulty variant of TransactionId: the account id is not scaled by 100
TransactionId_Unscaled(account_id, i) == account_id + i

\* the id of the i-th transaction generated for account_id
TransactionId(account_id, i) == account_id * 100 + i

\* the i-th transaction of a batch; k is the number of draws already taken from the tape
Transaction(account_id, i, now, tape, k) ==
  LET days_ago == tape.days[((k + i - 1) % DatePeriod) + 1]
  IN  [id |-> TransactionId(account_id, i),
       transaction_reference |->
         IF tape.is_debit THEN Choice(debit_references, tape.reference)
         ELSE Choice(credit_references, tape.reference),
       transaction_amount |-> Uniform(500, 100000, tape.amount),
       transaction_type |-> IF tape.is_debit THEN "debit" ELSE "credit",
       transaction_date |-> DateMinus(now, days_ago)]

\* a faulty variant of InsertDesc: x goes in front of the elements of its own date
RECURSIVE InsertDesc_Unstable(_, _)
InsertDesc_Unstable(sorted, x) ==
  IF sorted = <<>> THEN <<x>>
  ELSE IF ~StrLess(x.transaction_date, Head(sorted).transaction_date)
       THEN <<x>> \o sorted
       ELSE <<Head(sorted)>> \o InsertDesc_Unstable(Tail(sorted), x)

\* insert x behind every element whose date is not smaller: stable, descending
RECURSIVE InsertDesc(_, _)
InsertDesc(sorted, x) ==
  IF sorted = <<>> THEN <<x>>
  ELSE IF StrLess(Head(sorted).transaction_date, x.transaction_date)
       THEN <<x>> \o sorted
       ELSE <<Head(sorted)>> \o InsertDesc(Tail(sorted), x)

\* transactions.sort(key=transaction_date, reverse=True)
RECURSIVE SortByDateDesc(_, _)
SortByDateDesc(transactions, n) ==
  IF n = 0 THEN <<>>
  ELSE InsertDesc(SortByDateDesc(transactions, n - 1), transactions[n])

\* the loop of generate_transactions_for_account, after its first n rounds
RECURSIVE GeneratedTransactions(_, _, _, _, _)
GeneratedTransactions(account_id, n, now, tape, k) ==
  IF n <= 0 THEN <<>>
  ELSE Append(GeneratedTransactions(account_id, n - 1, now, tape, k),
              Transaction(account_id, n, now, tape, k))

generate_transactions_for_account(account_id, count, now, tape, k) ==
  LET transactions == GeneratedTransactions(account_id, count, now, tape, k)
  IN  SortByDateDesc(transactions, Len(transactions))

(***************************************************************************)
(* GET /api/accounts/{account_id}/transactions                             *)
(***************************************************************************)
AccountIdInputs == {-1, 0, 1, 7, 20, 21, 999}

TxLimitInputs == {-3, -1, 0, 1, 3, 5, 6, 100}

NotFoundDetail(account_id) ==
  <<"Account with ID ">> \o IntToStr(account_id) \o <<" not found">>

\* raise HTTPException(status_code, detail)
HttpError(status_code, detail) ==
  [status |-> status_code, result |-> [detail |-> detail],
   delivered |-> [detail |-> detail], batches |-> <<>>]

\* a faulty variant of AccountExists: the id is only compared with the number of accounts
AccountExists_UpperBoundOnly(account_id, account_ids) == account_id <= Len(account_ids)

\* line 198: account_id in account_ids
AccountExists(account_id, account_ids) == InList(account_id, account_ids)

\* lines 201-208: the outcome of a request for an account that exists
TransactionsSuccess(account_id, limit, now, tape) ==
  LET transactions == generate_transactions_for_account(account_id, limit, now, tape, 0)
      body == [account_id |-> account_id, transactions |-> transactions,
               total_count |-> Len(transactions)]
  IN  [status |-> 200, result |-> body,
       delivered |-> ShapeResponse(body, TransactionsResponse),
       batches |-> <<transactions>>]

get_account_transactions ==
  /\ pc = "idle"
  /\ universe' = <<>>
  /\ \E account_ids \in ValidAccountIdLists :
     \E account_id \in AccountIdInputs, limit \in TxLimitInputs :
       /\ request' = [endpoint |-> "account_transactions", account_id |-> account_id,
                      limit |-> limit]
       /\ \E out \in
            IF ~AccountExists(account_id, account_ids)
            THEN {HttpError(404, NotFoundDetail(account_id))}
            ELSE {TransactionsSuccess(account_id, ClampLimit(limit, 5), now, tape) :
                    now \in NowInputs, tape \in TxTapes} :
            /\ status' = out.status
            /\ result' = out.result
            /\ delivered' = out.delivered
            /\ batches' = out.batches
  /\ pc' = "done"

(***************************************************************************)
(* Parsing of the account_ids query string                                 *)
(***************************************************************************)
\* s.split(sep): the pieces between the separators, empty pieces included
RECURSIVE SplitFrom(_, _, _, _)
SplitFrom(s, sep, i, piece) ==
  IF i > Len(s) THEN <<piece>>
  ELSE IF s[i] = sep THEN <<piece>> \o SplitFrom(s, sep, i + 1, <<>>)
  ELSE SplitFrom(s, sep, i + 1, Append(piece, s[i]))

Split(s, sep) == SplitFrom(s, sep, 1, <<>>)

IsSpace(c) == c \in {" ", "\t", "\n", "\r"}

RECURSIVE LStrip(_)
LStrip(s) == IF s # <<>> /\ IsSpace(Head(s)) THEN LStrip(Tail(s)) ELSE s

RECURSIVE RStrip(_)
RStrip(s) ==
  IF s # <<>> /\ IsSpace(s[Len(s)]) THEN RStrip(SubSeq(s, 1, Len(s) - 1)) ELSE s

\* s.strip()
Strip(s) == RStrip(LStrip(s))

IsDigit(c) == InList(c, DigitChars)

DigitValue(c) == (CHOOSE i \in DOMAIN DigitChars : DigitChars[i] = c) - 1

RECURSIVE DigitsValue(_, _)
DigitsValue(s, acc) ==
  IF s = <<>> THEN acc ELSE DigitsValue(Tail(s), acc * 10 + DigitValue(Head(s)))

\* int(s) for a stripped s: an optional sign and one or more decimal digits;
\* anything else raises ValueError (ok = FALSE).  Digit grouping with "_" and
\* non-ASCII digits are not among the characters of the modelled inputs.
PyInt(s) ==
  LET signed == s # <<>> /\ Head(s) \in {"+", "-"}
      digits == IF signed THEN Tail(s) ELSE s
  IN  IF digits # <<>> /\ \A i \in DOMAIN digits : IsDigit(digits[i])
      THEN [ok |-> TRUE,
            value |-> IF signed /\ Head(s) = "-" THEN -DigitsValue(digits, 0)
                      ELSE DigitsValue(digits, 0)]
      ELSE [ok |-> FALSE, value |-> 0]

\* [aid.strip() for aid in pieces if aid.strip()]
RECURSIVE StripNonBlank(_)
StripNonBlank(pieces) ==
  IF pieces = <<>> THEN <<>>
  ELSE LET t == Strip(Head(pieces))
       IN  (IF t # <<>> THEN <<t>> ELSE <<>>) \o StripNonBlank(Tail(pieces))

\* the stripped pieces of account_ids that are not blank
IdTokens(account_ids) == StripNonBlank(Split(account_ids, ","))

\* [int(t) for t in tokens], every token being an integer
RECURSIVE IntValues(_)
IntValues(tokens) ==
  IF tokens = <<>> THEN <<>>
  ELSE <<PyInt(Head(tokens)).value>> \o IntValues(Tail(tokens))

\* a faulty variant of ParseIdList: a token that is not an integer is skipped
ParseIdList_SkipsBadTokens(account_ids) ==
  LET tokens == SelectSeq(IdTokens(account_ids), LAMBDA t : PyInt(t).ok)
  IN  IF tokens = <<>>
      THEN [ok |-> FALSE, detail |-> "No valid account IDs provided"]
      ELSE [ok |-> TRUE, id_list |-> IntValues(tokens)]

\* lines 218-223: the parsed id list, or the 400 the parsing ends in
ParseIdList(account_ids) ==
  LET tokens == IdTokens(account_ids)
  IN  IF \E i \in DOMAIN tokens : ~PyInt(tokens[i]).ok
      THEN [ok |-> FALSE,
            detail |-> "Invalid account ID format. Use comma-separated integers."]
      ELSE IF tokens = <<>>
      THEN [ok |-> FALSE, detail |-> "No valid account IDs provided"]
      ELSE [ok |-> TRUE, id_list |-> IntValues(tokens)]

(***************************************************************************)
(* GET /api/transactions                                                   *)
(***************************************************************************)
AccountIdsInputs ==
  {
   <<"1", ",", "2", ",", "9", "9", "9">>,
   <<"a", "b", "c">>,
   <<>>,
   <<"1", ",", "1">>,
   <<" ", "1", " ", ",", " ", "2", "0", " ">>,
   <<",", ",">>,
   <<"9", "9", "9">>,
   <<"9", "9", "9", ",", "a", "b", "c">>,
   <<"1", ",", ",", "2">>,
   <<"-", "1", ",", "0", ",", "2", "1">>,
   <<"2", "0">>,
   <<"0", "1">>,
   <<"+", "2">>,
   <<"1", " ", "2">>,
   <<"-">>,
   <<"2", ",", "1">>,
   <<"1", ",", "2", "0", ",", "2">>,
   <<"9", "9", "9", ",", "1", ",", "2", "1", ",", "1">>,
   <<" ">>,
   <<"1", ",", "x">>,
   <<"2", ",">>,
   <<"1", ".", "5">>
  }

PerAccountInputs == {-1, 0, 2, 5, 7}

\* ", ".join(map(str, ids))
RECURSIVE JoinIds(_)
JoinIds(ids) ==
  IF ids = <<>> THEN <<>>
  ELSE IF Len(ids) = 1 THEN IntToStr(ids[1])
  ELSE IntToStr(ids[1]) \o <<",", " ">> \o JoinIds(Tail(ids))

WarningText(invalid_ids) == <<"Account IDs not found: ">> \o JoinIds(invalid_ids)

\* d[key] = value
DictSet(d, key, value) ==
  [k \in (DOMAIN d) \cup {key} |-> IF k = key THEN value ELSE d[k]]

\* the batch generated for the j-th valid id; the batches before it took (j-1)*count draws
BatchOf(valid_ids, j, count, now, tape) ==
  generate_transactions_for_account(valid_ids[j], count, now, tape,
                                    (j - 1) * Max(count, 0))

\* lines 240-246: the loop over valid_ids, after its first n rounds
RECURSIVE Aggregate(_, _, _, _, _)
Aggregate(valid_ids, n, count, now, tape) ==
  IF n = 0 THEN [account_transactions |-> <<>>, total_transactions |-> 0, batches |-> <<>>]
  ELSE LET before == Aggregate(valid_ids, n - 1, count, now, tape)
           transactions == BatchOf(valid_ids, n, count, now, tape)
       IN  [account_transactions |->
              DictSet(before.account_transactions, IntToStr(valid_ids[n]), transactions),
            total_transactions |-> before.total_transactions + Len(transactions),
            batches |-> Append(before.batches, transactions)]

\* lines 249-257: the handler's result
MultiBody(agg, invalid_ids) ==
  LET base == [accounts |-> agg.account_transactions,
               total_transactions |-> agg.total_transactions]
  IN  IF invalid_ids # <<>>
      THEN [accounts |-> base.accounts, total_transactions |-> base.total_transactions,
            warnings |-> WarningText(invalid_ids)]
      ELSE base

\* lines 233-234: the ids of id_list that are (keep = TRUE) or are not in the universe
RECURSIVE FilterIds(_, _, _)
FilterIds(id_list, valid_account_ids, keep) ==
  IF id_list = <<>> THEN <<>>
  ELSE (IF InList(Head(id_list), valid_account_ids) = keep THEN <<Head(id_list)>> ELSE <<>>)
       \o FilterIds(Tail(id_list), valid_account_ids, keep)

\* lines 239-257: the outcome of a request that has a valid id
MultiSuccess(valid_ids, invalid_ids, transactions_per_account, now, tape) ==
  LET agg == Aggregate(valid_ids, Len(valid_ids),
                       ClampLimit(transactions_per_account, 5), now, tape)
      body == MultiBody(agg, invalid_ids)
  IN  [status |-> 200, result |-> body,
       delivered |-> ShapeResponse(body, MultiAccountTransactionsResponse),
       batches |-> agg.batches]

\* a parameter of the form x \in {e} names the value of e, computed once
get_multiple_account_transactions ==
  /\ pc = "idle"
  /\ universe' = <<>>
  /\ \E valid_account_ids \in ValidAccountIdLists :
     \E account_ids \in AccountIdsInputs, transactions_per_account \in PerAccountInputs :
     \E parsed \in {ParseIdList(account_ids)} :
       /\ request' = [endpoint |-> "transactions", account_ids |-> account_ids,
                      transactions_per_account |-> transactions_per_account]
       /\ \E out \in
            IF ~parsed.ok THEN {HttpError(400, parsed.detail)}
            ELSE LET valid_ids == FilterIds(parsed.id_list, valid_account_ids, TRUE)
                     invalid_ids == FilterIds(parsed.id_list, valid_account_ids, FALSE)
                 IN  IF valid_ids = <<>>
                     THEN {HttpError(404, "None of the provided account IDs were found")}
                     ELSE {MultiSuccess(valid_ids, invalid_ids, transactions_per_account,
                                        now, tape) : now \in NowInputs, tape \in TxTapes} :
            /\ status' = out.status
            /\ result' = out.result
            /\ delivered' = out.delivered
            /\ batches' = out.batches
  /\ pc' = "done"

(***************************************************************************)
(* The response is sent and the request's data is discarded.               *)
(***************************************************************************)
Respond ==
  /\ pc = "done"
  /\ pc' = "idle"
  /\ request' = [endpoint |-> "none"]
  /\ universe' = <<>>
  /\ batches' = <<>>
  /\ status' = 0
  /\ result' = <<>>
  /\ delivered' = <<>>

Init ==
  /\ pc = "idle"
  /\ request = [endpoint |-> "none"]
  /\ universe = <<>>
  /\ batches = <<>>
  /\ status = 0
  /\ result = <<>>
  /\ delivered = <<>>

NextAccounts == get_accounts \/ Respond

SpecAccounts == Init /\ [][NextAccounts]_vars

NextTransactions == get_account_transactions \/ Respond

SpecTransactions == Init /\ [][NextTransactions]_vars

NextMulti == get_multiple_account_transactions \/ Respond

SpecMulti == Init /\ [][NextMulti]_vars

(***************************************************************************)
(* Properties                                                              *)
(***************************************************************************)
Served(endpoint) == pc = "done" /\ request.endpoint = endpoint

\* the ids of the account universe, as the specification states them
UniverseIds == 1..20

\* sub occurs in text
Contains(text, sub) ==
  \E i \in 0..(Len(text) - Len(sub)) : SubSeq(text, i + 1, i + Len(sub)) = sub

RECURSIVE SumOfLengths(_, _)
SumOfLengths(mapping, keys) ==
  IF keys = {} THEN 0
  ELSE LET k == CHOOSE x \in keys : TRUE
       IN  Len(mapping[k]) + SumOfLengths(mapping, keys \ {k})

\* the ids a GET /api/transactions request lists, in order
RequestedIds == ParseIdList(request.account_ids).id_list

\* the requested ids that are (not) in the universe, in order
RequestedValid == SelectSeq(RequestedIds, LAMBDA x : x \in UniverseIds)
RequestedInvalid == SelectSeq(RequestedIds, LAMBDA x : x \notin UniverseIds)

\* C1: in every successful GET /api/transactions response, total_transactions is the
\* sum of the lengths of the transaction lists of the accounts mapping
C1_TotalIsSumOfLists ==
  (Served("transactions") /\ status = 200) =>
    delivered.total_transactions =
      SumOfLengths(delivered.accounts, DOMAIN delivered.accounts)

\* C2: the delivered response of a successful GET /api/transactions has a warnings
\* string naming every requested id outside the universe when there is one, and has
\* no warnings when every requested id is valid
C2_WarningsDelivered ==
  (Served("transactions") /\ status = 200) =>
    IF RequestedInvalid # <<>>
    THEN /\ "warnings" \in DOMAIN delivered
         /\ \A i \in DOMAIN RequestedInvalid :
              Contains(delivered.warnings, IntToStr(RequestedInvalid[i]))
    ELSE "warnings" \notin DOMAIN delivered

\* the accounts of the universe that pass the type filter of the request
MatchingIds ==
  IF request.account_type # <<>> /\ request.account_type[1] \in
       {"Transactional", "Credit Card", "Loan"}
  THEN {i \in DOMAIN universe : universe[i].account_type = request.account_type[1]}
  ELSE DOMAIN universe

\* C3: for every limit <= 20 (a limit below 0 counting as 0) GET /api/accounts returns
\* exactly min(limit, n) accounts, n the size of the universe after the type filter,
\* and total_count is the number of accounts returned
C3_ReturnsMinLimitFiltered ==
  (Served("accounts") /\ request.limit <= 20) =>
    /\ Len(delivered.accounts) = Min(Max(request.limit, 0), Cardinality(MatchingIds))
    /\ delivered.total_count = Len(delivered.accounts)

\* C4: every generated Loan account has available_balance 0, and every generated Loan
\* or Credit Card account has total_balance strictly below 0
C4_DebtBalancesNegative ==
  Served("accounts") =>
    \A i \in DOMAIN universe :
      /\ universe[i].account_type = "Loan" => universe[i].available_balance = 0
      /\ universe[i].account_type \in {"Loan", "Credit Card"} =>
           universe[i].total_balance < 0

\* C5: GET /api/accounts/{account_id}/transactions ends in 404, with the id in the
\* detail and no transaction generated, exactly when account_id is outside 1..20, and
\* otherwise succeeds and echoes account_id, whatever the random draws are
C5_NotFoundExactlyOutsideUniverse ==
  Served("account_transactions") =>
    IF request.account_id \notin UniverseIds
    THEN /\ status = 404
         /\ Contains(delivered.detail, IntToStr(request.account_id))
         /\ batches = <<>>
    ELSE /\ status = 200
         /\ delivered.account_id = request.account_id

C5_Witness ==
  /\ Served("account_transactions")
  /\ request.account_id = 999
  /\ status = 404
  /\ batches = <<>>

\* a token that is an optional sign followed by decimal digits only
IsIntegerText(t) ==
  LET digits == IF t[1] \in {"+", "-"} THEN Tail(t) ELSE t
  IN  /\ Len(digits) >= 1
      /\ \A i \in DOMAIN digits :
           digits[i] \in {"0", "1", "2", "3", "4", "5", "6", "7", "8", "9"}

\* C6: GET /api/transactions ends in 400 when no non-blank token remains or some token
\* is not an integer, otherwise in 404 when no parsed id is in 1..20, otherwise in
\* success; nothing is generated on either error
C6_ErrorClassification ==
  Served("transactions") =>
    LET tokens == IdTokens(request.account_ids)
        malformed == tokens = <<>> \/ \E i \in DOMAIN tokens : ~IsIntegerText(tokens[i])
    IN  /\ status \in {400, 404, 200}
        /\ status = 400 <=> malformed
        /\ status = 404 <=> (~malformed /\ RequestedValid = <<>>)
        /\ status # 200 => batches = <<>>

C6_Witness ==
  /\ Served("transactions")
  /\ request.account_ids = <<"9", "9", "9", ",", "a", "b", "c">>
  /\ status = 400
  /\ batches = <<>>

\* date a is the same day as date b or a later day
SameDayOrLater(a, b) ==
  \/ a[1] > b[1]
  \/ a[1] = b[1] /\ a[2] > b[2]
  \/ a[1] = b[1] /\ a[2] = b[2] /\ a[3] >= b[3]

\* C7: every list generate_transactions_for_account returns is ordered by
\* transaction_date descending, and transactions of the same date keep their order of
\* generation (ascending sequence number)
C7_SortedByDateDescStable ==
  \A j \in DOMAIN batches :
    \A i \in 1..(Len(batches[j]) - 1) :
      /\ SameDayOrLater(batches[j][i].transaction_date, batches[j][i + 1].transaction_date)
      /\ batches[j][i].transaction_date = batches[j][i + 1].transaction_date =>
           batches[j][i].id < batches[j][i + 1].id

C7_Witness ==
  /\ Served("transactions")
  /\ status = 200
  /\ \E j \in DOMAIN batches :
       /\ Len(batches[j]) = 5
       /\ \E i \in 1..4 : batches[j][i].transaction_date = batches[j][i + 1].transaction_date
       /\ \E i \in 1..4 : batches[j][i].id > batches[j][i + 1].id

\* C8: for an account_id in 1..20 the endpoint returns at most 5 transactions: limit of
\* them when 0 <= limit <= 5, 5 when limit > 5, none when limit < 0; total_count is
\* the number returned
C8_TransactionCount ==
  (Served("account_transactions") /\ request.account_id \in UniverseIds) =>
    /\ status = 200
    /\ Len(delivered.transactions) <= 5
    /\ (0 <= request.limit /\ request.limit <= 5) =>
         Len(delivered.transactions) = request.limit
    /\ request.limit > 5 => Len(delivered.transactions) = 5
    /\ request.limit < 0 => Len(delivered.transactions) = 0
    /\ delivered.total_count = Len(delivered.transactions)

C8_Witness ==
  /\ Served("account_transactions")
  /\ request.limit = 100
  /\ status = 200
  /\ Len(delivered.transactions) = 5

\* the ids of the transactions of a list
IdsOf(transactions) == {transactions[i].id : i \in DOMAIN transactions}

\* C9: a batch of c transactions generated for account a has the ids a*100 + s, s in
\* 1..c, each once; and no two transactions of one GET /api/transactions response
\* share an id
C9_TransactionIdsUnique ==
  (Served("transactions") /\ status = 200) =>
    /\ \E valid \in {RequestedValid} :
         /\ Len(batches) = Len(valid)
         /\ \A j \in DOMAIN batches :
              /\ IdsOf(batches[j]) = {valid[j] * 100 + s : s \in 1..Len(batches[j])}
              /\ Cardinality(IdsOf(batches[j])) = Len(batches[j])
    /\ \A k1, k2 \in DOMAIN delivered.accounts :
         \A i1 \in DOMAIN delivered.accounts[k1], i2 \in DOMAIN delivered.accounts[k2] :
           (k1 # k2 \/ i1 # i2) =>
             delivered.accounts[k1][i1].id # delivered.accounts[k2][i2].id

C9_Witness ==
  /\ Served("transactions")
  /\ status = 200
  /\ Cardinality(DOMAIN delivered.accounts) >= 2
  /\ \A k \in DOMAIN delivered.accounts : Len(delivered.accounts[k]) = 5

\* C10: with account_type one of the three types, GET /api/accounts returns accounts
\* of that type only, the lowest-id matching ones in ascending id order, the filter
\* coming before the truncation; with any other account_type the result is that of a
\* request without account_type
C10_TypeFilter ==
  Served("accounts") =>
    /\ status = 200
    /\ IF request.account_type # <<>> /\ request.account_type[1] \in
            {"Transactional", "Credit Card", "Loan"}
       THEN LET r == delivered.accounts
            IN  /\ \A j \in DOMAIN r :
                     /\ r[j].account_type = request.account_type[1]
                     /\ r[j].id \in DOMAIN universe /\ r[j] = universe[r[j].id]
                     /\ j > 1 => r[j - 1].id < r[j].id
                     /\ \A i \in MatchingIds :
                          i < r[j].id => \E jj \in 1..(j - 1) : r[jj].id = i
                /\ request.limit >= 0 =>
                     Len(r) = Min(Min(request.limit, 20), Cardinality(MatchingIds))
       ELSE /\ delivered.accounts = PySliceTo(universe, Min(request.limit, 20))
            /\ delivered.total_count = Len(delivered.accounts)

C10_Witness ==
  /\ Served("accounts")
  /\ request.account_type = <<"Loan">>
  /\ request.limit = 7
  /\ Len(delivered.accounts) = 7
  /\ delivered.accounts[1].id > 1
  /\ \E i \in DOMAIN universe : universe[i].account_type # "Loan"

====
